---- MODULE Spec2Model ----
(***************************************************************************)
(* httm: the snapshot version lookup of src/lookup/versions.rs and the     *)
(* discovery of the mounted datasets of src/parse/mounts.rs.               *)
(*                                                                         *)
(* Spec        VersionsMap::new run with the default post-processing       *)
(*             options: dataset resolution, the parallel probe of every    *)
(*             snapshot mount, the per-bundle sort/dedup, the map, the     *)
(*             "nothing found" check and the return.                       *)
(* SpecPasses  the second half of VersionsMap::new (lines 88-113) started  *)
(*             from any built map, under every combination of the          *)
(*             bulk-exclusion, omit-ditto and last-snap options.           *)
(* SpecMounts  BaseFilesystemInfo::new on any small mount table: the      *)
(*             mount table read or the mount command parsed, then the      *)
(*             snapshot mounts looked up.                                  *)
(* SpecSort    VersionsMap::new for one path whose candidates in three     *)
(*             snapshots have all been stat'ed, from the sort on.          *)
(* SpecAlts    VersionsMap::new for one path of a dataset with two         *)
(*             replicas, any of the three in the snapshot index or not.    *)
(*                                                                         *)
(* A path is a sequence of numbered components.  Option<T> is a sequence   *)
(* of length 0 (None) or 1 (Some).                                         *)
(***************************************************************************)
EXTENDS Integers, Sequences, FiniteSets, TLC

VARIABLES
    \* GLOBAL_CONFIG.dataset_collection (read-only after start-up)
    map_of_datasets,            \* set of dataset mount points
    map_of_snaps,               \* dataset mount -> sequence of snapshot mounts
    opt_map_of_alts,            \* Option<proximate mount -> MostProximateAndOptAlts>
    opt_map_of_aliases,         \* Option<local dir -> remote dir (dataset mount)>
    snaps_selected_for_search,  \* SnapsSelectedForSearch
    \* the arguments of VersionsMap::new
    config,                     \* uniqueness, opt_bulk_exclusion, opt_omit_ditto, opt_last_snap
    path_set,                   \* sequence of PathData
    \* the workers of the par_iter over path_set (indexed like path_set)
    search_bundles,             \* the search bundles of the worker's path, in order
    bundle_idx,                 \* index of the search bundle the worker is probing
    stat,                       \* per bundle and snapshot mount: the probe's outcome
    arrival,                    \* per bundle: the snapshot mounts in the order their probes ended
    snaps,                      \* the worker's Vec<PathData> collected so far
    \* the main thread of VersionsMap::new
    pc,
    all_snap_versions,          \* the map as built (line 75)
    versions_map,               \* the map the passes mutate (line 88)
    result,                     \* Option<VersionsMap> handed to the caller
    exit_status,                \* Option<process exit status>
    \* BaseFilesystemInfo::new (src/parse/mounts.rs) and what it runs on
    mounts,                     \* the mounted filesystems
    platform,                   \* target OS, mount table, mount command, snapshot lookup
    discovery,                  \* where BaseFilesystemInfo::new is
    discovered,                 \* Option<(MapOfDatasets, FilterDirs)> of the mount parser
    base_filesystem_info        \* Option<BaseFilesystemInfo> handed to the caller

vars == <<map_of_datasets, map_of_snaps, opt_map_of_alts, opt_map_of_aliases,
          snaps_selected_for_search, config, path_set, search_bundles, bundle_idx,
          stat, arrival, snaps, pc, all_snap_versions, versions_map, result,
          exit_status,
          mounts, platform, discovery, discovered, base_filesystem_info>>

world == <<map_of_datasets, map_of_snaps, opt_map_of_alts, opt_map_of_aliases,
           snaps_selected_for_search, config, path_set, search_bundles,
           mounts, platform, discovery, discovered, base_filesystem_info>>

(***************************************************************************)
(* Bounds                                                                  *)
(***************************************************************************)
\* snapshots of the proximate dataset
NSnaps == 2
\* snapshots of the replicated dataset
NAltSnaps == 1
\* modification times 1..MaxTime (0 is the epoch of a phantom path)
MaxTime == 2
\* file sizes 1..MaxSize
MaxSize == 1
\* distinct file contents 1..NContents
NContents == 1
\* snapshots of the dataset in SpecSort
NSortSnaps == 3
\* different contents a snapshot copy can have in SpecSort
NSortContents == 2

(***************************************************************************)
(* Values                                                                  *)
(***************************************************************************)
None == <<>>

Some(x) == <<x>>

IsSome(o) == Len(o) = 1

Unwrap(o) == o[1]

Range(s) == {s[i] : i \in 1..Len(s)}

\* std::path::Path::starts_with
StartsWith(path, base) ==
    /\ Len(base) <= Len(path)
    /\ SubSeq(path, 1, Len(base)) = base

\* std::path::Path::strip_prefix, once StartsWith holds
StripPrefix(path, base) == SubSeq(path, Len(base) + 1, Len(path))

\* the order of PathBuf: component by component
RECURSIVE PathLess(_, _)
PathLess(a, b) ==
    IF Len(b) = 0 THEN FALSE
    ELSE IF Len(a) = 0 THEN TRUE
    ELSE IF a[1] # b[1] THEN a[1] < b[1]
    ELSE PathLess(Tail(a), Tail(b))

PathMetadata == [modify_time : 1..MaxTime, size : 1..MaxSize]

\* the metadata md_infallible reports for a path that does not exist
PHANTOM_PATH_METADATA == [modify_time |-> 0, size |-> 0]

PathData(path, opt_md) == [path_buf |-> path, metadata |-> opt_md]

md_infallible(pathdata) ==
    IF IsSome(pathdata.metadata) THEN Unwrap(pathdata.metadata)
    ELSE PHANTOM_PATH_METADATA

UniquenessModes == {"All", "UniqueMetadata", "UniqueContents"}

LastSnapModes == {"Any", "DittoOnly", "NoDittoExclusive", "NoDittoInclusive", "Without"}

(***************************************************************************)
(* The file system the model runs on                                       *)
(***************************************************************************)
\* the dataset the input file lives on, its replica, and a directory that is
\* no dataset of its own
ProximateMount == <<1>>

ReplicatedMount == <<2>>

AliasedDir == <<3>>

\* <mount>/.zfs/snapshot/<s>
SnapMount(dataset, s) == dataset \o <<0, s>>

SnapMountsOf(dataset) ==
    IF dataset = ProximateMount THEN [s \in 1..NSnaps |-> SnapMount(dataset, s)]
    ELSE [s \in 1..NAltSnaps |-> SnapMount(dataset, s)]

DatasetMetadata(name) == [name |-> name, fs_type |-> "Zfs", mount_type |-> "Local"]

\* the live paths on the command line: one under the proximate dataset, one
\* under a directory httm reaches through an alias only
InputPaths == << ProximateMount \o <<1>>, AliasedDir \o <<2>> >>

OptPathMetadata == {None} \cup {Some(md) : md \in PathMetadata}

(***************************************************************************)
(* Dataset resolution (PathData's helpers live in src/data/paths.rs)       *)
(***************************************************************************)
\* the bases among `bases` that are ancestors of the path, longest first
LongestAncestor(path, bases) ==
    LET hits == {b \in bases : StartsWith(path, b) /\ b # path}
    IN  IF hits = {} THEN None
        ELSE Some(CHOOSE b \in hits : \A c \in hits : Len(c) <= Len(b))

\* PathData::alias_dataset: the dataset a user alias maps the path to
alias_dataset(pathdata, map_of_aliases) ==
    LET hit == LongestAncestor(pathdata.path_buf, DOMAIN map_of_aliases)
    IN  IF IsSome(hit) THEN Some(map_of_aliases[Unwrap(hit)]) ELSE None

\* PathData::proximate_dataset: the deepest mount that is an ancestor
proximate_dataset(pathdata, datasets) ==
    LongestAncestor(pathdata.path_buf, DOMAIN datasets)

\* PathData::relative_path: the path below the alias directory when the
\* dataset came from an alias, below the dataset's mount otherwise
relative_path(pathdata, proximate_dataset_mount) ==
    LET locals == IF IsSome(opt_map_of_aliases)
                  THEN {l \in DOMAIN Unwrap(opt_map_of_aliases) :
                          /\ Unwrap(opt_map_of_aliases)[l] = proximate_dataset_mount
                          /\ StartsWith(pathdata.path_buf, l)}
                  ELSE {}
    IN  IF locals # {}
        THEN Some(StripPrefix(pathdata.path_buf, CHOOSE l \in locals : TRUE))
        ELSE IF StartsWith(pathdata.path_buf, proximate_dataset_mount)
        THEN Some(StripPrefix(pathdata.path_buf, proximate_dataset_mount))
        ELSE None

\* lines 230-240: the alias if one matches, else the deepest ancestor mount
ProximateDatasetMount(pathdata) ==
    LET aliased == IF IsSome(opt_map_of_aliases)
                   THEN alias_dataset(pathdata, Unwrap(opt_map_of_aliases))
                   ELSE None
    IN  IF IsSome(aliased) THEN aliased
        ELSE proximate_dataset(pathdata, map_of_datasets)

\* MostProximateAndOptAlts::new answering a missing alternates entry with the
\* proximate dataset itself
MostProximateAndOptAlts_new_MissingAsProximate(pathdata, requested_dataset_type) ==
    LET prox == ProximateDatasetMount(pathdata)
    IN  IF ~IsSome(prox) THEN None
        ELSE IF /\ requested_dataset_type = "AltReplicated"
                /\ IsSome(opt_map_of_alts)
                /\ Unwrap(prox) \in DOMAIN Unwrap(opt_map_of_alts)
        THEN Some(Unwrap(opt_map_of_alts)[Unwrap(prox)])
        ELSE Some([proximate_dataset_mount |-> Unwrap(prox),
                   opt_datasets_of_interest |-> None])

\* MostProximateAndOptAlts::new; None is the Err the callers flatten away
MostProximateAndOptAlts_new(pathdata, requested_dataset_type) ==
    LET prox == ProximateDatasetMount(pathdata)
    IN  IF ~IsSome(prox) THEN None
        ELSE IF requested_dataset_type = "MostProximate"
        THEN Some([proximate_dataset_mount |-> Unwrap(prox),
                   opt_datasets_of_interest |-> None])
        ELSE IF /\ IsSome(opt_map_of_alts)
                /\ Unwrap(prox) \in DOMAIN Unwrap(opt_map_of_alts)
        THEN Some(Unwrap(opt_map_of_alts)[Unwrap(prox)])
        ELSE None

\* RelativePathAndSnapMounts::new
RelativePathAndSnapMounts_new(pathdata, proximate_dataset_mount, dataset_of_interest) ==
    LET rel == relative_path(pathdata, proximate_dataset_mount)
    IN  IF ~IsSome(rel) THEN None
        ELSE IF dataset_of_interest \notin DOMAIN map_of_snaps THEN None
        ELSE Some([relative_path |-> Unwrap(rel),
                   snap_mounts |-> map_of_snaps[dataset_of_interest]])

\* into_search_bundles leaving out the datasets of interest that have no
\* bundle and keeping the bundles of the others
into_search_bundles_SkipsMissing(datasets_of_interest, pathdata) ==
    LET prox == datasets_of_interest.proximate_dataset_mount
        opt  == datasets_of_interest.opt_datasets_of_interest
        ds   == IF IsSome(opt) THEN Unwrap(opt) ELSE <<prox>>
        some == SelectSeq(ds, LAMBDA d :
                    IsSome(RelativePathAndSnapMounts_new(pathdata, prox, d)))
    IN  Some([k \in 1..Len(some) |->
                Unwrap(RelativePathAndSnapMounts_new(pathdata, prox, some[k]))])

\* MostProximateAndOptAlts::into_search_bundles: collecting into a Result
\* fails as soon as one dataset of interest has no bundle
into_search_bundles(datasets_of_interest, pathdata) ==
    LET prox == datasets_of_interest.proximate_dataset_mount
        opt  == datasets_of_interest.opt_datasets_of_interest
    IN  IF IsSome(opt)
        THEN LET ds == Unwrap(opt)
                 bs == [i \in 1..Len(ds) |->
                          RelativePathAndSnapMounts_new(pathdata, prox, ds[i])]
             IN  IF \A i \in 1..Len(ds) : IsSome(bs[i])
                 THEN Some([i \in 1..Len(ds) |-> Unwrap(bs[i])])
                 ELSE None
        ELSE LET b == RelativePathAndSnapMounts_new(pathdata, prox, prox)
             IN  IF IsSome(b) THEN Some(<<Unwrap(b)>>) ELSE None

\* INCLUDE_ALTS with the proximate dataset searched first
INCLUDE_ALTS_ProximateFirst == <<"MostProximate", "AltReplicated">>

\* alt replicated should come first, so as to be at the top of results
INCLUDE_ALTS == <<"AltReplicated", "MostProximate">>

ONLY_PROXIMATE == <<"MostProximate">>

\* SnapsSelectedForSearch::as_slice
as_slice(selected) ==
    IF selected = "IncludeAltReplicated" THEN INCLUDE_ALTS ELSE ONLY_PROXIMATE

\* the bundles one dataset type contributes: both flat_maps drop an Err
BundlesOfType(pathdata, dataset_type) ==
    LET doi == MostProximateAndOptAlts_new(pathdata, dataset_type)
    IN  IF ~IsSome(doi) THEN <<>>
        ELSE LET bundles == into_search_bundles(Unwrap(doi), pathdata)
             IN  IF IsSome(bundles) THEN Unwrap(bundles) ELSE <<>>

RECURSIVE FlatMapTypes(_, _)
FlatMapTypes(pathdata, types) ==
    IF types = <<>> THEN <<>>
    ELSE BundlesOfType(pathdata, Head(types)) \o FlatMapTypes(pathdata, Tail(types))

\* VersionsMap::search_bundles_from_pathdata
search_bundles_from_pathdata(pathdata, selected) ==
    FlatMapTypes(pathdata, selected)

(***************************************************************************)
(* Probing a bundle, sorting and deduplicating what was found              *)
(***************************************************************************)
Pending == [kind |-> "Pending", metadata |-> None, contents |-> 0]

NotFound == [kind |-> "NotFound", metadata |-> None, contents |-> 0]

PermissionDenied == [kind |-> "PermissionDenied", metadata |-> None, contents |-> 0]

\* what symlink_metadata can answer for a candidate (with the contents the
\* file then has)
StatOutcomes ==
    {NotFound, PermissionDenied} \cup
    {[kind |-> "Ok", metadata |-> Some(md), contents |-> c] :
        md \in PathMetadata, c \in 1..NContents}

\* CompareVersionsContainer::new: the contents are hashed only when they are
\* what versions are compared by
CompareVersionsContainer_new(pathdata, contents, uniqueness) ==
    [pathdata |-> pathdata,
     opt_hash |-> IF uniqueness = "UniqueContents" THEN Some(contents) ELSE None]

\* Ord for CompareVersionsContainer: modification time, then path
VersionLess(a, b) ==
    LET amd == md_infallible(a.pathdata)
        bmd == md_infallible(b.pathdata)
    IN  \/ amd.modify_time < bmd.modify_time
        \/ /\ amd.modify_time = bmd.modify_time
           /\ PathLess(a.pathdata.path_buf, b.pathdata.path_buf)

\* PartialEq for CompareVersionsContainer: the contents when they were
\* hashed, the metadata (modification time and size) otherwise
VersionEq(a, b) ==
    IF IsSome(a.opt_hash) /\ IsSome(b.opt_hash)
    THEN a.opt_hash = b.opt_hash
    ELSE md_infallible(a.pathdata) = md_infallible(b.pathdata)

PathData_from(container) == container.pathdata

\* FilterMapCandidate emitting a record for a candidate that does not exist
FilterMapCandidate_KeepsMissing(joined_path, outcome, uniqueness) ==
    Some(CompareVersionsContainer_new(
            PathData(joined_path, outcome.metadata), outcome.contents, uniqueness))

\* lines 358-377 for one candidate whose stat did not end the process
FilterMapCandidate(joined_path, outcome, uniqueness) ==
    IF outcome.kind = "Ok"
    THEN Some(CompareVersionsContainer_new(
                 PathData(joined_path, outcome.metadata), outcome.contents, uniqueness))
    ELSE None

\* IsFatal with permission-denied flattened away like any other error
IsFatal_Never(outcome) == FALSE

\* lines 362-371: the one error that is not flattened away
IsFatal(outcome) == outcome.kind = "PermissionDenied"

\* RelativePathAndSnapMounts::versions_unprocessed, collected in the order of
\* snap_mounts (rayon's collect keeps the order of the source)
RECURSIVE versions_unprocessed(_, _, _)
versions_unprocessed(bundle, outcomes, uniqueness) ==
    IF outcomes = <<>> THEN <<>>
    ELSE LET n    == Len(outcomes)
             rest == versions_unprocessed(bundle, SubSeq(outcomes, 1, n - 1), uniqueness)
             c    == FilterMapCandidate(bundle.snap_mounts[n] \o bundle.relative_path,
                                        outcomes[n], uniqueness)
         IN  IF IsSome(c) THEN Append(rest, Unwrap(c)) ELSE rest

RECURSIVE InsertSorted(_, _)
InsertSorted(x, sorted) ==
    IF sorted = <<>> THEN <<x>>
    ELSE IF VersionLess(x, Head(sorted)) THEN <<x>> \o sorted
    ELSE <<Head(sorted)>> \o InsertSorted(x, Tail(sorted))

\* slice::sort_unstable
RECURSIVE sort_unstable(_)
sort_unstable(versions) ==
    IF versions = <<>> THEN <<>>
    ELSE InsertSorted(versions[Len(versions)],
                      sort_unstable(SubSeq(versions, 1, Len(versions) - 1)))

\* dedup keeping the last of consecutive equal elements
RECURSIVE dedup_KeepsLast(_)
dedup_KeepsLast(versions) ==
    IF Len(versions) <= 1 THEN versions
    ELSE LET front == dedup_KeepsLast(SubSeq(versions, 1, Len(versions) - 1))
             last  == versions[Len(versions)]
         IN  IF VersionEq(front[Len(front)], last)
             THEN Append(SubSeq(front, 1, Len(front) - 1), last)
             ELSE Append(front, last)

\* dedup removing one element only, the second of the first equal pair
dedup_OnePair(versions) ==
    LET pairs == {k \in 1..Len(versions) - 1 : VersionEq(versions[k], versions[k + 1])}
    IN  IF pairs = {} THEN versions
        ELSE LET k == CHOOSE x \in pairs : \A y \in pairs : x <= y
             IN  SubSeq(versions, 1, k) \o SubSeq(versions, k + 2, Len(versions))

\* Vec::dedup: of consecutive equal elements the first is kept
RECURSIVE dedup(_)
dedup(versions) ==
    IF Len(versions) <= 1 THEN versions
    ELSE LET front == dedup(SubSeq(versions, 1, Len(versions) - 1))
             last  == versions[Len(versions)]
         IN  IF VersionEq(front[Len(front)], last) THEN front ELSE Append(front, last)

\* sort_dedup_versions keeping every version in every mode
sort_dedup_versions_KeepsAll(iter, snaps_of_type) ==
    LET kept == sort_unstable(iter)
    IN  [i \in 1..Len(kept) |-> PathData_from(kept[i])]

\* sort_dedup_versions with the sort left out
sort_dedup_versions_Unsorted(iter, snaps_of_type) ==
    LET kept == IF snaps_of_type = "All" THEN iter ELSE dedup(iter)
    IN  [i \in 1..Len(kept) |-> PathData_from(kept[i])]

\* RelativePathAndSnapMounts::sort_dedup_versions
sort_dedup_versions(iter, snaps_of_type) ==
    LET versions == sort_unstable(iter)
        kept     == IF snaps_of_type = "All" THEN versions ELSE dedup(versions)
    IN  [i \in 1..Len(kept) |-> PathData_from(kept[i])]

\* RelativePathAndSnapMounts::versions_processed
versions_processed(bundle, outcomes, uniqueness) ==
    sort_dedup_versions(versions_unprocessed(bundle, outcomes, uniqueness), uniqueness)

(***************************************************************************)
(* The post-processing passes                                              *)
(***************************************************************************)
\* Vec::pop on a non-empty vector
pop(v) == SubSeq(v, 1, Len(v) - 1)

\* slice::last
last(v) == IF v = <<>> THEN None ELSE Some(v[Len(v)])

\* is_live_version_redundant comparing the last version with the live path
\* as a whole, path included, instead of their metadata
is_live_version_redundant_ComparesPaths(live_pathdata, versions) ==
    IF IsSome(last(versions))
    THEN Unwrap(last(versions)) = live_pathdata
    ELSE FALSE

\* VersionsMap::is_live_version_redundant
is_live_version_redundant(live_pathdata, versions) ==
    IF IsSome(last(versions))
    THEN md_infallible(Unwrap(last(versions))) = md_infallible(live_pathdata)
    ELSE FALSE

\* omit_ditto popping the last version whether it is a ditto or not
omit_ditto_PopsAlways(map) ==
    [pathdata \in DOMAIN map |->
        IF map[pathdata] # <<>> THEN pop(map[pathdata]) ELSE map[pathdata]]

\* VersionsMap::omit_ditto
omit_ditto(map) ==
    [pathdata \in DOMAIN map |->
        IF is_live_version_redundant(pathdata, map[pathdata])
        THEN pop(map[pathdata])
        ELSE map[pathdata]]

\* LastSnapOfEntry with the guard of the DittoOnly arm left out
LastSnapOfEntry_DittoOnlyUnguarded(pathdata, versions, last_snap_mode) ==
    IF IsSome(last(versions))
    THEN LET l == Unwrap(last(versions))
         IN  IF last_snap_mode \in {"Any", "DittoOnly"} THEN <<l>>
             ELSE IF /\ last_snap_mode \in {"NoDittoExclusive", "NoDittoInclusive"}
                     /\ md_infallible(pathdata) # md_infallible(l) THEN <<l>>
             ELSE <<>>
    ELSE IF last_snap_mode \in {"Without", "NoDittoInclusive"} THEN <<pathdata>>
         ELSE <<>>

\* LastSnapOfEntry with Without keeping the versions of a path that has some
LastSnapOfEntry_WithoutKeepsVersions(pathdata, versions, last_snap_mode) ==
    IF IsSome(last(versions))
    THEN LET l == Unwrap(last(versions))
         IN  IF last_snap_mode = "Any" THEN <<l>>
             ELSE IF /\ last_snap_mode = "DittoOnly"
                     /\ md_infallible(pathdata) = md_infallible(l) THEN <<l>>
             ELSE IF /\ last_snap_mode \in {"NoDittoExclusive", "NoDittoInclusive"}
                     /\ md_infallible(pathdata) # md_infallible(l) THEN <<l>>
             ELSE IF last_snap_mode = "Without" THEN versions
             ELSE <<>>
    ELSE IF last_snap_mode \in {"Without", "NoDittoInclusive"} THEN <<pathdata>>
         ELSE <<>>

\* the match of VersionsMap::last_snap for one entry of the map
LastSnapOfEntry(pathdata, versions, last_snap_mode) ==
    IF IsSome(last(versions))
    THEN LET l == Unwrap(last(versions))
         IN  IF last_snap_mode = "Any" THEN <<l>>
             ELSE IF /\ last_snap_mode = "DittoOnly"
                     /\ md_infallible(pathdata) = md_infallible(l) THEN <<l>>
             ELSE IF /\ last_snap_mode \in {"NoDittoExclusive", "NoDittoInclusive"}
                     /\ md_infallible(pathdata) # md_infallible(l) THEN <<l>>
             ELSE <<>>
    ELSE IF last_snap_mode \in {"Without", "NoDittoInclusive"} THEN <<pathdata>>
         ELSE <<>>

\* last_snap taking the paths it leaves without an entry out of the map
last_snap_DropsEmptied(map, last_snap_mode) ==
    [pathdata \in {p \in DOMAIN map : LastSnapOfEntry(p, map[p], last_snap_mode) # <<>>} |->
        LastSnapOfEntry(pathdata, map[pathdata], last_snap_mode)]

\* VersionsMap::last_snap
last_snap(map, last_snap_mode) ==
    [pathdata \in DOMAIN map |-> LastSnapOfEntry(pathdata, map[pathdata], last_snap_mode)]

\* NothingFound without the NoSnap carve-out
NothingFound_IgnoresCarveOut(map, cfg) ==
    /\ \A pathdata \in DOMAIN map : map[pathdata] = <<>>
    /\ \A pathdata \in DOMAIN map : ~IsSome(pathdata.metadata)

\* lines 92-96: no version of any path, no live file either, and the user did
\* not ask to leave the snapshots out
NothingFound(map, cfg) ==
    /\ \A pathdata \in DOMAIN map : map[pathdata] = <<>>
    /\ \A pathdata \in DOMAIN map : ~IsSome(pathdata.metadata)
    /\ cfg.opt_bulk_exclusion # Some("NoSnap")

(***************************************************************************)
(* VersionsMap::new, step by step                                          *)
(***************************************************************************)
Workers == 1..Len(path_set)

\* lines 79 and 121-127: the bundles of the i-th input path
Bundles(i) == search_bundles_from_pathdata(path_set[i], as_slice(snaps_selected_for_search))

\* no candidate of any bundle has been stat'ed yet
FreshStat(bundles) ==
    [b \in 1..Len(bundles) |-> [m \in 1..Len(bundles[b].snap_mounts) |-> Pending]]

WorkerDone(i) == bundle_idx[i] > Len(search_bundles[i])

\* lines 356-378: one rayon task stats one candidate of the bundle its path's
\* worker is on; permission-denied ends the process then and there
Probe(i, m) ==
    /\ pc = "probing"
    /\ ~WorkerDone(i)
    /\ m \in 1..Len(stat[i][bundle_idx[i]])
    /\ stat[i][bundle_idx[i]][m] = Pending
    /\ \E outcome \in StatOutcomes :
        /\ stat' = [stat EXCEPT ![i][bundle_idx[i]][m] = outcome]
        /\ arrival' = [arrival EXCEPT ![i][bundle_idx[i]] = Append(@, m)]
        /\ pc' = IF IsFatal(outcome) THEN "exited" ELSE pc
        /\ exit_status' = IF IsFatal(outcome) THEN Some(1) ELSE exit_status
    /\ UNCHANGED <<world, bundle_idx, snaps, all_snap_versions, versions_map, result>>

\* VersionsProcessed taking the bundle's versions as their probes ended,
\* unsorted
VersionsProcessed_AsArrived(i) ==
    /\ pc = "probing"
    /\ ~WorkerDone(i)
    /\ \A m \in 1..Len(stat[i][bundle_idx[i]]) : stat[i][bundle_idx[i]][m] # Pending
    /\ LET bundle  == search_bundles[i][bundle_idx[i]]
           order   == arrival[i][bundle_idx[i]]
           arrived == [relative_path |-> bundle.relative_path,
                       snap_mounts |-> [k \in 1..Len(order) |-> bundle.snap_mounts[order[k]]]]
           answers == [k \in 1..Len(order) |-> stat[i][bundle_idx[i]][order[k]]]
           records == versions_unprocessed(arrived, answers, config.uniqueness)
       IN  snaps' = [snaps EXCEPT ![i] =
                        @ \o [k \in 1..Len(records) |-> PathData_from(records[k])]]
    /\ bundle_idx' = [bundle_idx EXCEPT ![i] = @ + 1]
    /\ UNCHANGED <<world, stat, arrival, pc, all_snap_versions, versions_map, result,
                   exit_status>>

\* lines 80-83 and 331-337: every candidate of the bundle has been stat'ed;
\* the bundle's versions are sorted, deduplicated and appended to the path's
\* versions, and the worker moves on to its next bundle
VersionsProcessed(i) ==
    /\ pc = "probing"
    /\ ~WorkerDone(i)
    /\ \A m \in 1..Len(stat[i][bundle_idx[i]]) : stat[i][bundle_idx[i]][m] # Pending
    /\ snaps' = [snaps EXCEPT ![i] =
                    @ \o versions_processed(search_bundles[i][bundle_idx[i]],
                                            stat[i][bundle_idx[i]], config.uniqueness)]
    /\ bundle_idx' = [bundle_idx EXCEPT ![i] = @ + 1]
    /\ UNCHANGED <<world, stat, arrival, pc, all_snap_versions, versions_map, result,
                   exit_status>>

\* CollectMap leaving out the paths no search bundle was built for
CollectMap_DropsUnresolved ==
    [pathdata \in {path_set[i] : i \in {w \in Workers : search_bundles[w] # <<>>}} |->
        snaps[CHOOSE i \in Workers : path_set[i] = pathdata]]

\* the BTreeMap the workers' pairs are collected into
CollectMap ==
    [pathdata \in Range(path_set) |->
        snaps[CHOOSE i \in Workers : path_set[i] = pathdata]]

\* lines 75-88: every worker has returned its (pathdata, snaps) pair
BuildMap ==
    /\ pc = "probing"
    /\ \A i \in Workers : WorkerDone(i)
    /\ all_snap_versions' = CollectMap
    /\ versions_map' = CollectMap
    /\ pc' = "check"
    /\ UNCHANGED <<world, bundle_idx, stat, arrival, snaps, result, exit_status>>

\* lines 92-102
CheckNothingFound ==
    /\ pc = "check"
    /\ pc' = IF NothingFound(versions_map, config) THEN "err" ELSE "omit_ditto"
    /\ UNCHANGED <<world, bundle_idx, stat, arrival, snaps, all_snap_versions, versions_map,
                   result, exit_status>>

\* lines 105-107
OmitDitto ==
    /\ pc = "omit_ditto"
    /\ versions_map' = IF config.opt_omit_ditto THEN omit_ditto(versions_map)
                       ELSE versions_map
    /\ pc' = "last_snap"
    /\ UNCHANGED <<world, bundle_idx, stat, arrival, snaps, all_snap_versions, result,
                   exit_status>>

\* LastSnap with the two passes run the other way round: the last-snapshot
\* pass on the map as built, ditto omission on what it leaves
LastSnap_BeforeOmitDitto ==
    /\ pc = "last_snap"
    /\ versions_map' =
            IF IsSome(config.opt_last_snap)
            THEN LET filtered == last_snap(all_snap_versions, Unwrap(config.opt_last_snap))
                 IN  IF config.opt_omit_ditto THEN omit_ditto(filtered) ELSE filtered
            ELSE versions_map
    /\ result' = Some(versions_map')
    /\ pc' = "returned"
    /\ UNCHANGED <<world, bundle_idx, stat, arrival, snaps, all_snap_versions, exit_status>>

\* lines 109-113
LastSnap ==
    /\ pc = "last_snap"
    /\ versions_map' = IF IsSome(config.opt_last_snap)
                       THEN last_snap(versions_map, Unwrap(config.opt_last_snap))
                       ELSE versions_map
    /\ result' = Some(versions_map')
    /\ pc' = "returned"
    /\ UNCHANGED <<world, bundle_idx, stat, arrival, snaps, all_snap_versions, exit_status>>

(***************************************************************************)
(* Discovery of the mounted datasets (src/parse/mounts.rs).  A string is a *)
(* sequence of pieces; a separator the parser looks for is one piece.      *)
(***************************************************************************)
ZFS_FSTYPE == "zfs"

BTRFS_FSTYPE == "btrfs"

SMB_FSTYPE == "smbfs"

NFS_FSTYPE == "nfs"

AFP_FSTYPE == "afpfs"

\* a filesystem type httm has no arm for, and one that is a network share
\* under a name httm has no arm for
OtherFsTypes == {"ext4", "nfs4"}

ZFS_SNAPSHOT_DIRECTORY == ".zfs/snapshot"

\* the names of the path components 1, 2, ...; component 0 is the hidden
\* snapshot directory
ComponentNames == <<"tank", "backup", "home", "types">>

ComponentName(c) == IF c = 0 THEN ZFS_SNAPSHOT_DIRECTORY ELSE ComponentNames[c]

\* Path::to_string_lossy, and how mount prints a mount point
Display(path) == [k \in 1..Len(path) |-> ComponentName(path[k])]

\* PathBuf::from on what Display gave
PathBuf_from(string) ==
    [k \in 1..Len(string) |->
        CHOOSE c \in 0..Len(ComponentNames) : ComponentName(c) = string[k]]

\* the pattern occurs inside the piece
Within(pattern, piece) ==
    \/ piece = pattern
    \/ pattern = "type" /\ piece \in {" type", "types"}

\* str::contains
contains(string, pattern) == \E k \in 1..Len(string) : Within(pattern, string[k])

\* str::split_once: around the first occurrence of the delimiter
split_once(string, delimiter) ==
    LET at == {k \in 1..Len(string) : string[k] = delimiter}
    IN  IF at = {} THEN None
        ELSE LET k == CHOOSE x \in at : \A y \in at : x <= y
             IN  Some(<<SubSeq(string, 1, k - 1), SubSeq(string, k + 1, Len(string))>>)

\* get_fs_type_from_hidden_dir (src/library/utility.rs): which snapshot
\* hidden directory there is beneath the mount point, if any
get_fs_type_from_hidden_dir(dest) ==
    LET at == {m \in mounts : m.dest = dest}
    IN  IF at = {} THEN None
        ELSE LET kind == (CHOOSE m \in at : TRUE).hidden_dir
             IN  IF kind = "None" THEN None ELSE Some(kind)

\* lines 132-145: the value of the last key=value option with this key
KeyedOption(options, key) ==
    LET keyed == {k \in 1..Len(options) :
                    /\ contains(options[k], "=")
                    /\ Unwrap(split_once(options[k], "="))[1] = key}
    IN  IF keyed = {} THEN None
        ELSE Some(Unwrap(split_once(options[CHOOSE k \in keyed : \A j \in keyed : j <= k],
                                    "="))[2])

\* Either::Left((dest, metadata)) or, with no metadata, Either::Right(dest)
Left(dest, metadata) == [dest |-> dest, metadata |-> Some(metadata)]

Right(dest) == [dest |-> dest, metadata |-> None]

\* ProcMountEntry taking a network share for a local dataset
ProcMountEntry_NetworkAsLocal(mount_info) ==
    IF mount_info.fstype = ZFS_FSTYPE
    THEN Left(mount_info.dest, DatasetMetadata(mount_info.source))
    ELSE IF mount_info.fstype \in {SMB_FSTYPE, AFP_FSTYPE, NFS_FSTYPE}
    THEN LET probe == get_fs_type_from_hidden_dir(mount_info.dest)
         IN  IF IsSome(probe)
             THEN Left(mount_info.dest,
                       [name |-> mount_info.source, fs_type |-> Unwrap(probe),
                        mount_type |-> "Local"])
             ELSE Right(mount_info.dest)
    ELSE IF mount_info.fstype = BTRFS_FSTYPE
    THEN LET subvol == KeyedOption(mount_info.options, <<"subvol">>)
         IN  Left(mount_info.dest,
                  [name |-> IF IsSome(subvol) THEN Unwrap(subvol) ELSE mount_info.source,
                   fs_type |-> "Btrfs", mount_type |-> "Local"])
    ELSE Right(mount_info.dest)

\* lines 101-161: the arm of partition_map a mount of the mount table takes
ProcMountEntry(mount_info) ==
    IF mount_info.fstype = ZFS_FSTYPE
    THEN Left(mount_info.dest, DatasetMetadata(mount_info.source))
    ELSE IF mount_info.fstype \in {SMB_FSTYPE, AFP_FSTYPE, NFS_FSTYPE}
    THEN LET probe == get_fs_type_from_hidden_dir(mount_info.dest)
         IN  IF IsSome(probe)
             THEN Left(mount_info.dest,
                       [name |-> mount_info.source, fs_type |-> Unwrap(probe),
                        mount_type |-> "Network"])
             ELSE Right(mount_info.dest)
    ELSE IF mount_info.fstype = BTRFS_FSTYPE
    THEN LET subvol == KeyedOption(mount_info.options, <<"subvol">>)
         IN  Left(mount_info.dest,
                  [name |-> IF IsSome(subvol) THEN Unwrap(subvol) ELSE mount_info.source,
                   fs_type |-> "Btrfs", mount_type |-> "Local"])
    ELSE Right(mount_info.dest)

\* BaseFilesystemInfo::get_filter_dirs_max_depth: the root counts as a component
get_filter_dirs_max_depth(dirs_set) ==
    IF dirs_set = {} THEN None
    ELSE Some(CHOOSE n \in {Len(dir) + 1 : dir \in dirs_set} :
                  \A dir \in dirs_set : Len(dir) + 1 <= n)

FilterDirs(dirs_set) ==
    [dirs_set |-> dirs_set, opt_max_depth |-> get_filter_dirs_max_depth(dirs_set)]

\* partition_map collected into (MapOfDatasets, BTreeSet<PathBuf>)
Partition(entries) ==
    LET lefts == {e \in entries : IsSome(e.metadata)}
    IN  <<[dest \in {e.dest : e \in lefts} |->
              Unwrap((CHOOSE e \in lefts : e.dest = dest).metadata)],
          {e.dest : e \in entries \ lefts}>>

\* from_proc_mounts returning an empty dataset map as it is
from_proc_mounts_EmptyOk ==
    IF platform.proc_mounts = "unreadable" THEN None
    ELSE LET raw == {mount_info \in mounts :
                        ~contains(Display(mount_info.dest), ZFS_SNAPSHOT_DIRECTORY)}
             parts == Partition({ProcMountEntry(mount_info) : mount_info \in raw})
         IN  Some(<<parts[1], FilterDirs(parts[2])>>)

\* BaseFilesystemInfo::from_proc_mounts; None is the Err
from_proc_mounts ==
    IF platform.proc_mounts = "unreadable" THEN None
    ELSE LET raw == {mount_info \in mounts :
                        ~contains(Display(mount_info.dest), ZFS_SNAPSHOT_DIRECTORY)}
             parts == Partition({ProcMountEntry(mount_info) : mount_info \in raw})
         IN  IF DOMAIN parts[1] = {} THEN None
             ELSE Some(<<parts[1], FilterDirs(parts[2])>>)

\* the line the mount command prints for a mount: "src on dest type fs (opts)"
\* with GNU mount, "src on dest (fs, opts)" with Busybox and BSD mount
MountLine(mount_info) ==
    mount_info.source \o <<" on ">> \o Display(mount_info.dest) \o
    (IF platform.mount_cmd = "gnu" THEN <<" type", " ", mount_info.fstype, " (">>
     ELSE <<" (", mount_info.fstype, ", ">>) \o
    <<"options", ")">>

\* lines 188-202: the source and the mount point read back from a line
ParseLine(line) ==
    IF contains(line, ZFS_SNAPSHOT_DIRECTORY) THEN None
    ELSE LET split == IF contains(line, "type") THEN split_once(line, " type")
                      ELSE split_once(line, " (")
         IN  IF ~IsSome(split) THEN None
             ELSE LET filesystem_and_mount == Unwrap(split)[1]
                      pair == split_once(filesystem_and_mount, " on ")
                  IN  IF ~IsSome(pair) THEN None
                      ELSE Some(<<Unwrap(pair)[1], PathBuf_from(Unwrap(pair)[2])>>)

\* lines 205-225: the arm of partition_map a line of the mount command takes
MountCmdEntry(filesystem, mount) ==
    LET probe == get_fs_type_from_hidden_dir(mount)
    IN  IF IsSome(probe)
        THEN Left(mount, [name |-> filesystem, fs_type |-> Unwrap(probe),
                          mount_type |-> "Local"])
        ELSE Right(mount)

\* BaseFilesystemInfo::from_mount_cmd; None is the Err
from_mount_cmd ==
    IF platform.mount_cmd \in {"missing", "fails"} THEN None
    ELSE LET command_output == {MountLine(mount_info) : mount_info \in mounts}
             parsed == {ParseLine(line) : line \in command_output} \ {None}
             parts  == Partition({MountCmdEntry(Unwrap(p)[1], Unwrap(p)[2]) : p \in parsed})
         IN  IF DOMAIN parts[1] = {} THEN None
             ELSE Some(<<parts[1], FilterDirs(parts[2])>>)

\* MapOfSnaps::new (src/parse/snaps.rs): the snapshot mounts of every dataset
MapOfSnaps_new(datasets) == [dataset \in DOMAIN datasets |-> SnapMountsOf(dataset)]

\* what the path lookup leaves alone while discovery runs
lookup == <<opt_map_of_alts, opt_map_of_aliases, snaps_selected_for_search, config,
            path_set, search_bundles, bundle_idx, stat, arrival, snaps, pc,
            all_snap_versions,
            versions_map, result, exit_status>>

\* lines 73-74: on Linux the mount table is read
FromProcMounts ==
    /\ discovery = "new"
    /\ platform.linux
    /\ discovered' = from_proc_mounts
    /\ discovery' = IF IsSome(from_proc_mounts) THEN "mounts" ELSE "err"
    /\ UNCHANGED <<lookup, mounts, platform, map_of_datasets, map_of_snaps,
                   base_filesystem_info>>

\* lines 75-76: elsewhere the mount command is run
FromMountCmd ==
    /\ discovery = "new"
    /\ ~platform.linux
    /\ discovered' = from_mount_cmd
    /\ discovery' = IF IsSome(from_mount_cmd) THEN "mounts" ELSE "err"
    /\ UNCHANGED <<lookup, mounts, platform, map_of_datasets, map_of_snaps,
                   base_filesystem_info>>

\* lines 79-85: the snapshot mounts are looked up and the whole is returned,
\* to become the dataset collection the lookup works on
MapOfSnapsNew ==
    /\ discovery = "mounts"
    /\ IF platform.map_of_snaps = "ok"
       THEN /\ base_filesystem_info' =
                    Some([map_of_datasets |-> Unwrap(discovered)[1],
                          map_of_snaps |-> MapOfSnaps_new(Unwrap(discovered)[1]),
                          filter_dirs |-> Unwrap(discovered)[2]])
            /\ map_of_datasets' = Unwrap(discovered)[1]
            /\ map_of_snaps' = MapOfSnaps_new(Unwrap(discovered)[1])
            /\ discovery' = "ok"
       ELSE /\ discovery' = "err"
            /\ UNCHANGED <<base_filesystem_info, map_of_datasets, map_of_snaps>>
    /\ UNCHANGED <<lookup, mounts, platform, discovered>>

(***************************************************************************)
(* Specifications                                                          *)
(***************************************************************************)
\* a dataset is named after its pool and its mount point
SourceOf(dest) == <<"pool">> \o Display(dest)

ZfsMount(dest) ==
    [source |-> SourceOf(dest), dest |-> dest, fstype |-> ZFS_FSTYPE,
     options |-> << <<"rw">> >>, hidden_dir |-> "Zfs"]

\* discovery has run on Linux, on ZFS datasets mounted at these mount points
DiscoveredOn(dests) ==
    /\ mounts = {ZfsMount(dest) : dest \in dests}
    /\ platform = [linux |-> TRUE, proc_mounts |-> "readable", mount_cmd |-> "gnu",
                   map_of_snaps |-> "ok"]
    /\ discovery = "ok"
    /\ discovered = from_proc_mounts
    /\ map_of_datasets = Unwrap(discovered)[1]

\* the BaseFilesystemInfo the dataset collection was made from
Handed ==
    base_filesystem_info = Some([map_of_datasets |-> map_of_datasets,
                                 map_of_snaps |-> map_of_snaps,
                                 filter_dirs |-> Unwrap(discovered)[2]])

EmptyMap == [pathdata \in {} |-> <<>>]

\* the alternates of the proximate dataset, as the alternates map holds them
AltsOfProximate ==
    [proximate_dataset_mount |-> ProximateMount,
     opt_datasets_of_interest |-> Some(<<ReplicatedMount>>)]

InitWorkers ==
    /\ search_bundles = [i \in Workers |-> Bundles(i)]
    /\ bundle_idx = [i \in Workers |-> 1]
    /\ stat = [i \in Workers |-> FreshStat(search_bundles[i])]
    /\ arrival = [i \in Workers |-> [b \in 1..Len(search_bundles[i]) |-> <<>>]]
    /\ snaps = [i \in Workers |-> <<>>]

\* httm started on the two input paths with the default post-processing
\* options; the maps are what discovery may have built
Init ==
    /\ DiscoveredOn({ProximateMount, ReplicatedMount})
    /\ \E D \in SUBSET {ProximateMount, ReplicatedMount} :
            map_of_snaps = [d \in D |-> SnapMountsOf(d)]
    /\ Handed
    /\ opt_map_of_alts \in
            {None, Some(EmptyMap), Some([d \in {ProximateMount} |-> AltsOfProximate])}
    /\ opt_map_of_aliases \in {None, Some([l \in {AliasedDir} |-> ReplicatedMount])}
    /\ snaps_selected_for_search \in {"MostProximateOnly", "IncludeAltReplicated"}
    /\ config \in [uniqueness : UniquenessModes, opt_bulk_exclusion : {None},
                   opt_omit_ditto : {FALSE}, opt_last_snap : {None}]
    /\ \E a, b \in OptPathMetadata :
            path_set = <<PathData(InputPaths[1], a), PathData(InputPaths[2], b)>>
    /\ InitWorkers
    /\ pc = "probing"
    /\ all_snap_versions = EmptyMap
    /\ versions_map = EmptyMap
    /\ result = None
    /\ exit_status = None

Next ==
    \/ \E i \in Workers : \E m \in 1..NSnaps + NAltSnaps : Probe(i, m)
    \/ \E i \in Workers : VersionsProcessed(i)
    \/ BuildMap
    \/ CheckNothingFound
    \/ OmitDitto
    \/ LastSnap

Spec == Init /\ [][Next]_vars

\* the two files SpecPasses looks up, both on the proximate dataset
PassesPaths == << ProximateMount \o <<1>>, ProximateMount \o <<2>> >>

BulkExclusions == {None, Some("NoLive"), Some("NoSnap")}

OptLastSnapModes == {None} \cup {Some(mode) : mode \in LastSnapModes}

\* the state VersionsMap::new is in at line 88: the map has been built for
\* two files of the proximate dataset, each found in any of its snapshots,
\* and any combination of the post-processing options is set
InitPasses ==
    /\ DiscoveredOn({ProximateMount})
    /\ map_of_snaps = [d \in {ProximateMount} |-> SnapMountsOf(d)]
    /\ Handed
    /\ opt_map_of_alts = None
    /\ opt_map_of_aliases = None
    /\ snaps_selected_for_search = "MostProximateOnly"
    /\ config \in [uniqueness : UniquenessModes, opt_bulk_exclusion : BulkExclusions,
                   opt_omit_ditto : BOOLEAN, opt_last_snap : OptLastSnapModes]
    /\ \E a, b \in OptPathMetadata :
            path_set = <<PathData(PassesPaths[1], a), PathData(PassesPaths[2], b)>>
    /\ search_bundles = [i \in Workers |-> Bundles(i)]
    /\ bundle_idx = [i \in Workers |-> Len(search_bundles[i]) + 1]
    /\ \E found \in [Workers -> [1..NSnaps -> StatOutcomes \ {PermissionDenied}]] :
            stat = [i \in Workers |-> <<found[i]>>]
    /\ arrival = [i \in Workers |-> <<[m \in 1..NSnaps |-> m]>>]
    /\ snaps = [i \in Workers |->
                    versions_processed(search_bundles[i][1], stat[i][1], config.uniqueness)]
    /\ all_snap_versions = CollectMap
    /\ versions_map = CollectMap
    /\ pc = "check"
    /\ result = None
    /\ exit_status = None

NextPasses ==
    \/ CheckNothingFound
    \/ OmitDitto
    \/ LastSnap

SpecPasses == InitPasses /\ [][NextPasses]_vars

\* a mount point of its own, with a name the text "type" occurs in
TypesMount == <<4>>

\* the hidden directories that can be found beneath a mount of this type
HiddenDirs(fstype) ==
    IF fstype = ZFS_FSTYPE THEN {"Zfs"}
    ELSE IF fstype = BTRFS_FSTYPE THEN {"Btrfs", "None"}
    ELSE IF fstype \in {SMB_FSTYPE, NFS_FSTYPE, AFP_FSTYPE} THEN {"Zfs", "Btrfs", "None"}
    ELSE IF fstype = "nfs4" THEN {"Zfs", "None"}
    ELSE {"None"}

\* the mount options a mount of this type can have
MountOptions(fstype) ==
    IF fstype = BTRFS_FSTYPE
    THEN {<< <<"rw">> >>, << <<"rw">>, <<"subvol", "=", "@">> >>}
    ELSE {<< <<"rw">> >>}

FsTypes == {ZFS_FSTYPE, BTRFS_FSTYPE, SMB_FSTYPE, NFS_FSTYPE, AFP_FSTYPE} \cup OtherFsTypes

\* the filesystems of these types that can be mounted at a mount point
PossibleMountsAt(dest, fstypes) ==
    UNION {{[source |-> SourceOf(dest), dest |-> dest, fstype |-> fstype,
             options |-> options, hidden_dir |-> hidden_dir] :
                options \in MountOptions(fstype), hidden_dir \in HiddenDirs(fstype)} :
           fstype \in fstypes}

\* nothing or one filesystem at each of the mount points
MountTables ==
    {a \cup b \cup c \cup d :
        a \in {{}} \cup {{m} : m \in PossibleMountsAt(ProximateMount, FsTypes)},
        b \in {{}} \cup {{m} : m \in PossibleMountsAt(ReplicatedMount, FsTypes)},
        c \in {{}, {ZfsMount(SnapMount(ProximateMount, 1))}},
        d \in {{}} \cup {{m} : m \in PossibleMountsAt(TypesMount, {ZFS_FSTYPE, "ext4"})}}

Platforms ==
    [linux : {TRUE}, proc_mounts : {"readable", "unreadable"}, mount_cmd : {"gnu"},
     map_of_snaps : {"ok", "err"}]
    \cup
    [linux : {FALSE}, proc_mounts : {"readable"},
     mount_cmd : {"missing", "fails", "gnu", "bsd"}, map_of_snaps : {"ok", "err"}]

\* httm starts: nothing has been discovered and no path is being looked up
InitMounts ==
    /\ mounts \in MountTables
    /\ platform \in Platforms
    /\ discovery = "new"
    /\ discovered = None
    /\ base_filesystem_info = None
    /\ map_of_datasets = EmptyMap
    /\ map_of_snaps = EmptyMap
    /\ opt_map_of_alts = None
    /\ opt_map_of_aliases = None
    /\ snaps_selected_for_search = "MostProximateOnly"
    /\ config = [uniqueness |-> "All", opt_bulk_exclusion |-> None,
                 opt_omit_ditto |-> FALSE, opt_last_snap |-> None]
    /\ path_set = <<>>
    /\ search_bundles = <<>>
    /\ bundle_idx = <<>>
    /\ stat = <<>>
    /\ arrival = <<>>
    /\ snaps = <<>>
    /\ pc = "discovery"
    /\ all_snap_versions = EmptyMap
    /\ versions_map = EmptyMap
    /\ result = None
    /\ exit_status = None

NextMounts ==
    \/ FromProcMounts
    \/ FromMountCmd
    \/ MapOfSnapsNew

SpecMounts == InitMounts /\ [][NextMounts]_vars

\* what symlink_metadata can answer in SpecSort
SortOutcomes ==
    {NotFound} \cup
    {[kind |-> "Ok", metadata |-> Some(md), contents |-> c] :
        md \in PathMetadata, c \in 1..NSortContents}

\* one path of a dataset with NSortSnaps snapshots, every candidate stat'ed
\* with any answer but permission-denied, nothing sorted yet
InitSort ==
    /\ DiscoveredOn({ProximateMount})
    /\ map_of_snaps = [d \in {ProximateMount} |->
                          [s \in 1..NSortSnaps |-> SnapMount(d, s)]]
    /\ Handed
    /\ opt_map_of_alts = None
    /\ opt_map_of_aliases = None
    /\ snaps_selected_for_search = "MostProximateOnly"
    /\ config \in [uniqueness : UniquenessModes, opt_bulk_exclusion : {None},
                   opt_omit_ditto : {FALSE}, opt_last_snap : {None}]
    /\ path_set = <<PathData(InputPaths[1], None)>>
    /\ search_bundles = [i \in Workers |-> Bundles(i)]
    /\ bundle_idx = [i \in Workers |-> 1]
    /\ \E found \in [1..NSortSnaps -> SortOutcomes] :
            stat = [i \in Workers |-> <<found>>]
    /\ arrival = [i \in Workers |-> <<[m \in 1..NSortSnaps |-> m]>>]
    /\ snaps = [i \in Workers |-> <<>>]
    /\ pc = "probing"
    /\ all_snap_versions = EmptyMap
    /\ versions_map = EmptyMap
    /\ result = None
    /\ exit_status = None

NextSort ==
    \/ \E i \in Workers : VersionsProcessed(i)
    \/ BuildMap
    \/ CheckNothingFound
    \/ OmitDitto
    \/ LastSnap

SpecSort == InitSort /\ [][NextSort]_vars

\* a second replica of the proximate dataset, mounted beneath the first
OtherReplicatedMount == ReplicatedMount \o <<1>>

\* the alternates map's entry of a proximate dataset with two replicas
AltsOfProximateBoth(datasets) ==
    [proximate_dataset_mount |-> ProximateMount,
     opt_datasets_of_interest |-> Some(datasets)]

\* httm started on one path of a dataset with two replicas; the snapshot
\* index has an entry for any of the three datasets or not
InitAlts ==
    /\ DiscoveredOn({ProximateMount, ReplicatedMount, OtherReplicatedMount})
    /\ \E D \in SUBSET {ProximateMount, ReplicatedMount, OtherReplicatedMount} :
            map_of_snaps = [d \in D |-> SnapMountsOf(d)]
    /\ Handed
    /\ \E datasets \in {<<ReplicatedMount, OtherReplicatedMount>>,
                         <<OtherReplicatedMount, ReplicatedMount>>} :
            opt_map_of_alts = Some([d \in {ProximateMount} |-> AltsOfProximateBoth(datasets)])
    /\ opt_map_of_aliases = None
    /\ snaps_selected_for_search \in {"MostProximateOnly", "IncludeAltReplicated"}
    /\ config = [uniqueness |-> "All", opt_bulk_exclusion |-> None,
                 opt_omit_ditto |-> FALSE, opt_last_snap |-> None]
    /\ \E a \in OptPathMetadata : path_set = <<PathData(InputPaths[1], a)>>
    /\ InitWorkers
    /\ pc = "probing"
    /\ all_snap_versions = EmptyMap
    /\ versions_map = EmptyMap
    /\ result = None
    /\ exit_status = None

NextAlts ==
    \/ \E i \in Workers : \E m \in 1..NSnaps + NAltSnaps : Probe(i, m)
    \/ \E i \in Workers : VersionsProcessed(i)
    \/ BuildMap
    \/ CheckNothingFound
    \/ OmitDitto
    \/ LastSnap

SpecAlts == InitAlts /\ [][NextAlts]_vars

(***************************************************************************)
(* Properties                                                              *)
(***************************************************************************)
\* the last version of the list is a ditto of the live path
EndsWithDitto(pathdata, versions) ==
    /\ versions # <<>>
    /\ md_infallible(versions[Len(versions)]) = md_infallible(pathdata)

\* the last version of the list differs from the live path
EndsWithChange(pathdata, versions) ==
    /\ versions # <<>>
    /\ md_infallible(versions[Len(versions)]) # md_infallible(pathdata)

\* the last-snapshot pass is about to run in this mode
LastSnapStarts(mode) == pc = "last_snap" /\ config.opt_last_snap = Some(mode)

\* the last-snapshot pass has run in this mode, on the map as built
LastSnapRanOnBuilt(mode) ==
    /\ pc = "returned"
    /\ config.opt_last_snap = Some(mode)
    /\ ~config.opt_omit_ditto

\* C1: after the last-snapshot pass in mode NoDittoInclusive every path has
\* exactly one version, its differing last snapshot or else the live path
\* itself.
C1_TotalCoverage ==
    [][LastSnapStarts("NoDittoInclusive") =>
        \A pathdata \in DOMAIN versions_map :
            LET before == versions_map[pathdata]
                after  == versions_map'[pathdata]
            IN  /\ Len(after) = 1
                /\ after[1] = IF EndsWithChange(pathdata, before)
                              THEN before[Len(before)]
                              ELSE pathdata]_vars

\* the modification times of a version list never decrease
SortedByTime(versions) ==
    \A j, k \in 1..Len(versions) :
        j < k => md_infallible(versions[j]).modify_time <= md_infallible(versions[k]).modify_time

\* the dataset whose snapshot mount a version was probed from
ProbedFrom(version) == SubSeq(version.path_buf, 1, Len(ProximateMount))

\* the map VersionsMap::new has returned
Returned == Unwrap(result)

C3_OmitDitto ==
    pc = "last_snap" /\ config.opt_omit_ditto =>
        /\ DOMAIN versions_map = DOMAIN all_snap_versions
        /\ \A pathdata \in DOMAIN all_snap_versions :
            LET before == all_snap_versions[pathdata]
                after  == versions_map[pathdata]
            IN  IF EndsWithDitto(pathdata, before)
                THEN /\ Len(after) = Len(before) - 1
                     /\ \A j \in 1..Len(after) : after[j] = before[j]
                ELSE after = before

\* C3: ditto omission has run on a map with a path of two versions ending with
\* a ditto (only the first is left) and a path ending with a change (untouched)
C3_Witness ==
    /\ pc = "last_snap"
    /\ config.opt_omit_ditto
    /\ \E p, q \in DOMAIN all_snap_versions :
        /\ Len(all_snap_versions[p]) = 2
        /\ EndsWithDitto(p, all_snap_versions[p])
        /\ versions_map[p] = <<all_snap_versions[p][1]>>
        /\ EndsWithChange(q, all_snap_versions[q])
        /\ versions_map[q] = all_snap_versions[q]

\* every input path is without versions in the map as built, none of them
\* exists, and the user did not ask to leave the snapshots out
NothingFoundAsBuilt ==
    /\ \A i \in Workers : all_snap_versions[path_set[i]] = <<>>
    /\ \A i \in Workers : path_set[i].metadata = None
    /\ config.opt_bulk_exclusion # Some("NoSnap")

\* C4: once the stat of any candidate has failed with permission-denied the
\* process has exited with a non-zero status and no map is returned, whatever
\* the other probes and the other paths' workers have done.
C4_PermissionDeniedExits ==
    (\E i \in Workers : \E b \in 1..Len(stat[i]) : \E m \in 1..Len(stat[i][b]) :
        stat[i][b][m] = PermissionDenied)
    => /\ pc = "exited"
       /\ IsSome(exit_status) /\ Unwrap(exit_status) # 0
       /\ result = None

\* C4: the process has exited on a permission-denied stat while the other
\* path's worker had versions collected and a probe was still outstanding
C4_Witness ==
    /\ pc = "exited"
    /\ \E i, j \in Workers :
        /\ i # j
        /\ \E b \in 1..Len(stat[i]) : \E m \in 1..Len(stat[i][b]) :
                stat[i][b][m] = PermissionDenied
        /\ snaps[j] # <<>>
        /\ \E b \in 1..Len(stat[j]) : \E m \in 1..Len(stat[j][b]) :
                stat[j][b][m] = Pending

\* C5: VersionsMap::new fails with "nothing found" exactly when, in the map as
\* built, every input path has no versions, every input path is phantom, and
\* the NoSnap exclusion is not set; in every other case it goes on to the
\* passes and returns a map.
C5_NothingFound ==
    /\ pc = "err" => NothingFoundAsBuilt /\ result = None
    /\ pc \in {"omit_ditto", "last_snap", "returned"} => ~NothingFoundAsBuilt
    /\ pc = "returned" => IsSome(result)

\* C5: a map is returned in which, after the passes, no path has a version
\* and no path exists: the check was made on the map as built
C5_Witness ==
    /\ pc = "returned"
    /\ config.opt_bulk_exclusion = None
    /\ \A pathdata \in DOMAIN Returned :
        /\ pathdata.metadata = None
        /\ Returned[pathdata] = <<>>
        /\ all_snap_versions[pathdata] # <<>>

\* C6: with both passes enabled ditto omission has run on the whole map as
\* built before the last-snapshot pass starts, and the map returned is the
\* last-snapshot pass applied to what ditto omission left.
C6_DittoBeforeLastSnap ==
    config.opt_omit_ditto /\ IsSome(config.opt_last_snap) =>
        /\ pc = "omit_ditto" => versions_map = all_snap_versions
        /\ pc = "last_snap" => versions_map = omit_ditto(all_snap_versions)
        /\ pc = "returned" =>
            Returned = last_snap(omit_ditto(all_snap_versions), Unwrap(config.opt_last_snap))

\* C6: both passes have run on a path whose last version is a ditto, and the
\* list returned differs from what the passes give the other way round
C6_Witness ==
    /\ pc = "returned"
    /\ config.opt_omit_ditto
    /\ IsSome(config.opt_last_snap)
    /\ \E pathdata \in DOMAIN Returned :
        /\ EndsWithDitto(pathdata, all_snap_versions[pathdata])
        /\ Returned[pathdata] #
            omit_ditto(last_snap(all_snap_versions, Unwrap(config.opt_last_snap)))[pathdata]

\* C7: after the last-snapshot pass in mode Any, DittoOnly or NoDittoExclusive
\* a path without versions stays without; any other path keeps exactly its
\* last version under Any, under DittoOnly when that version is a ditto of
\* the live path, under NoDittoExclusive when it is not, and nothing otherwise.
C7_AnyDittoOnlyExclusive ==
    [][\A mode \in {"Any", "DittoOnly", "NoDittoExclusive"} :
        LastSnapStarts(mode) =>
            \A pathdata \in DOMAIN versions_map :
                LET before == versions_map[pathdata]
                    after  == versions_map'[pathdata]
                    keeps  == \/ mode = "Any"
                              \/ mode = "DittoOnly" /\ EndsWithDitto(pathdata, before)
                              \/ mode = "NoDittoExclusive" /\ EndsWithChange(pathdata, before)
                IN  /\ before = <<>> => after = <<>>
                    /\ before # <<>> /\ keeps => after = <<before[Len(before)]>>
                    /\ before # <<>> /\ ~keeps => after = <<>>]_vars

\* C7: the pass has run in mode DittoOnly on a map with a path ending with a
\* ditto (kept) and a path ending with a change (dropped)
C7_Witness ==
    /\ LastSnapRanOnBuilt("DittoOnly")
    /\ \E p, q \in DOMAIN versions_map :
        /\ EndsWithDitto(p, all_snap_versions[p])
        /\ Len(all_snap_versions[p]) > 1
        /\ versions_map[p] = <<all_snap_versions[p][Len(all_snap_versions[p])]>>
        /\ EndsWithChange(q, all_snap_versions[q])
        /\ versions_map[q] = <<>>

\* C8, as claimed: after the last-snapshot pass in mode Without a path without
\* versions has the live path as its one version and a path with versions
\* keeps its version list as it was.
C8_WithoutLeavesVersions ==
    [][LastSnapStarts("Without") =>
        \A pathdata \in DOMAIN versions_map :
            LET before == versions_map[pathdata]
                after  == versions_map'[pathdata]
            IN  /\ before = <<>> => after = <<pathdata>>
                /\ before # <<>> => after = before]_vars

\* C8, amended: after the last-snapshot pass in mode Without a path without
\* versions has the live path as its one version and a path with versions
\* has none left.
C8_Without ==
    [][LastSnapStarts("Without") =>
        \A pathdata \in DOMAIN versions_map :
            LET before == versions_map[pathdata]
                after  == versions_map'[pathdata]
            IN  /\ before = <<>> => after = <<pathdata>>
                /\ before # <<>> => after = <<>>]_vars

\* C8: the pass has run in mode Without on a map with a path without versions
\* (now the live path) and a path with versions (now empty)
C8_Witness ==
    /\ LastSnapRanOnBuilt("Without")
    /\ \E p, q \in DOMAIN versions_map :
        /\ all_snap_versions[p] = <<>>
        /\ versions_map[p] = <<p>>
        /\ all_snap_versions[q] # <<>>
        /\ versions_map[q] = <<>>

\* the alternates of the path's proximate dataset
AltDatasets(pathdata) ==
    LET prox == ProximateDatasetMount(pathdata)
    IN  IF /\ IsSome(prox)
           /\ IsSome(opt_map_of_alts)
           /\ Unwrap(prox) \in DOMAIN Unwrap(opt_map_of_alts)
           /\ IsSome(Unwrap(opt_map_of_alts)[Unwrap(prox)].opt_datasets_of_interest)
        THEN Range(Unwrap(Unwrap(opt_map_of_alts)[Unwrap(prox)].opt_datasets_of_interest))
        ELSE {}

\* the dataset whose snapshot mounts a bundle searches
BundleDataset(bundle) == SubSeq(bundle.snap_mounts[1], 1, Len(ProximateMount))

\* no version from the proximate dataset comes before one from an alternate
AlternatesFirst(pathdata, versions) ==
    \A j, k \in 1..Len(versions) :
        /\ ProbedFrom(versions[j]) \in AltDatasets(pathdata)
        /\ ProbedFrom(versions[k]) = Unwrap(ProximateDatasetMount(pathdata))
        => j < k

\* C9: when alternates are searched and the path's proximate dataset has
\* some, the alternates' bundles come and are probed before the proximate
\* dataset's, and in the path's version list every version probed from an
\* alternate precedes every version probed from the proximate dataset.
C9_AlternatesFirst ==
    snaps_selected_for_search = "IncludeAltReplicated" =>
        \A i \in Workers :
            LET pathdata == path_set[i]
                bundles  == search_bundles[i]
                IsAlt(b)  == BundleDataset(bundles[b]) \in AltDatasets(pathdata)
                IsProx(b) == BundleDataset(bundles[b]) = Unwrap(ProximateDatasetMount(pathdata))
            IN  AltDatasets(pathdata) # {} =>
                    /\ \A b, c \in 1..Len(bundles) : IsAlt(b) /\ IsProx(c) => b < c
                    /\ \A b, c \in 1..Len(bundles) :
                           /\ IsAlt(b) /\ IsProx(c)
                           /\ \E m \in 1..Len(stat[i][c]) : stat[i][c][m] # Pending
                           => b < bundle_idx[i]
                    /\ AlternatesFirst(pathdata, snaps[i])
                    /\ pc = "returned" => AlternatesFirst(pathdata, Returned[pathdata])

\* C9: a returned list in which a version from an alternate comes first,
\* though it is younger than the version from the proximate dataset after it
C9_Witness ==
    /\ pc = "returned"
    /\ snaps_selected_for_search = "IncludeAltReplicated"
    /\ \E pathdata \in DOMAIN Returned :
        LET versions == Returned[pathdata]
        IN  \E j, k \in 1..Len(versions) :
                /\ j < k
                /\ ProbedFrom(versions[j]) \in AltDatasets(pathdata)
                /\ ProbedFrom(versions[k]) = Unwrap(ProximateDatasetMount(pathdata))
                /\ md_infallible(versions[j]).modify_time
                       > md_infallible(versions[k]).modify_time

\* the path's dataset resolution fails: no alias and no ancestor mount, or no
\* snapshot mounts known for its dataset
ResolutionFails(pathdata) ==
    LET prox == ProximateDatasetMount(pathdata)
    IN  \/ ~IsSome(prox)
        \/ Unwrap(prox) \notin DOMAIN map_of_snaps

\* nothing can be searched for the path: no dataset, or no snapshot mounts
\* known for its dataset and no alternates that can all be searched either
NothingToSearch(pathdata) ==
    LET prox == ProximateDatasetMount(pathdata)
    IN  \/ ~IsSome(prox)
        \/ /\ Unwrap(prox) \notin DOMAIN map_of_snaps
           /\ \/ snaps_selected_for_search = "MostProximateOnly"
              \/ AltDatasets(pathdata) = {}
              \/ \E d \in AltDatasets(pathdata) : d \notin DOMAIN map_of_snaps

\* what the probes of the i-th path's own candidates give, bundle after bundle
RECURSIVE OwnVersions(_, _)
OwnVersions(i, b) ==
    IF b = 0 THEN <<>>
    ELSE OwnVersions(i, b - 1) \o
         versions_processed(Bundles(i)[b], stat[i][b], config.uniqueness)

\* the only failure of VersionsMap::new: none of the input paths exists
OnlyFailsOnPhantoms == pc = "err" => \A i \in Workers : path_set[i].metadata = None

\* C10, as claimed: a path whose dataset resolution fails (no alias and no
\* ancestor mount, or no snapshot mounts known for its dataset) is a key of
\* the returned map with an empty version list, construction does not stop,
\* and every other path's list is what its own probes give.
C10_ResolutionFailureEmpty ==
    /\ OnlyFailsOnPhantoms
    /\ pc = "returned" =>
        \A i \in Workers :
            /\ path_set[i] \in DOMAIN Returned
            /\ ResolutionFails(path_set[i]) => Returned[path_set[i]] = <<>>
            /\ Returned[path_set[i]] = OwnVersions(i, Len(Bundles(i)))

\* C10, amended: a path for which nothing can be searched (no alias and no
\* ancestor mount, or no snapshot mounts known for its dataset and no
\* alternates that can all be searched) is a key of the returned map with an
\* empty version list, construction does not stop, and every path's list is
\* what its own probes give.
C10_NothingToSearchEmpty ==
    /\ OnlyFailsOnPhantoms
    /\ pc = "returned" =>
        \A i \in Workers :
            /\ path_set[i] \in DOMAIN Returned
            /\ NothingToSearch(path_set[i]) => Returned[path_set[i]] = <<>>
            /\ Returned[path_set[i]] = OwnVersions(i, Len(Bundles(i)))

\* C10: a map is returned with a path that has no dataset (no versions) next
\* to a path whose dataset has no snapshot mounts known and whose versions
\* come from its alternates
C10_Witness ==
    /\ pc = "returned"
    /\ \E p, q \in DOMAIN Returned :
        /\ ~IsSome(ProximateDatasetMount(p))
        /\ Returned[p] = <<>>
        /\ IsSome(ProximateDatasetMount(q))
        /\ Unwrap(ProximateDatasetMount(q)) \notin DOMAIN map_of_snaps
        /\ Returned[q] # <<>>

\* every candidate of the b-th bundle of the i-th path has been stat'ed
Probed(i, b) == \A m \in 1..Len(stat[i][b]) : stat[i][b][m] \notin {Pending, PermissionDenied}

\* the candidates of the b-th bundle of the i-th path that exist, as records
ExistingCandidates(i, b) ==
    {PathData(search_bundles[i][b].snap_mounts[m] \o search_bundles[i][b].relative_path,
              stat[i][b][m].metadata) :
        m \in {n \in 1..Len(stat[i][b]) : stat[i][b][n].kind = "Ok"}}

\* C11: probing a bundle has one candidate per snapshot mount, the mount
\* joined with the relative path, and gives exactly one record for each
\* candidate whose stat succeeds and none for one whose stat fails otherwise
\* than with permission-denied: the records are the candidates that exist,
\* and with every version kept (All) they are what the bundle adds to the
\* path's versions.
C11_OneRecordPerExistingCandidate ==
    \A i \in Workers : \A b \in 1..Len(search_bundles[i]) :
        Probed(i, b) =>
            LET bundle  == search_bundles[i][b]
                records == versions_unprocessed(bundle, stat[i][b], config.uniqueness)
                found   == [k \in 1..Len(records) |-> PathData_from(records[k])]
            IN  /\ Len(stat[i][b]) = Len(bundle.snap_mounts)
                /\ Len(found) = Cardinality(ExistingCandidates(i, b))
                /\ Range(found) = ExistingCandidates(i, b)
                /\ b < bundle_idx[i] /\ config.uniqueness = "All" =>
                       {snaps[i][k] : k \in {n \in 1..Len(snaps[i]) :
                            ProbedFrom(snaps[i][n]) = BundleDataset(bundle)}}
                           = ExistingCandidates(i, b)

\* C11: a bundle of two snapshot mounts has been probed, the file exists in
\* one snapshot only, and the path's versions are that one record
C11_Witness ==
    \E i \in Workers :
        /\ Len(search_bundles[i]) = 1
        /\ bundle_idx[i] = 2
        /\ Len(stat[i][1]) = 2
        /\ stat[i][1][1] = NotFound
        /\ stat[i][1][2].kind = "Ok"
        /\ snaps[i] = <<PathData(search_bundles[i][1].snap_mounts[2]
                                    \o search_bundles[i][1].relative_path,
                                 stat[i][1][2].metadata)>>

\* the alternates map has nothing for the path's proximate dataset
NoAlternatesEntry(pathdata) ==
    \/ ~IsSome(opt_map_of_alts)
    \/ Unwrap(ProximateDatasetMount(pathdata)) \notin DOMAIN Unwrap(opt_map_of_alts)

\* the versions the i-th path's probes give when only `bundles` are searched
RECURSIVE VersionsOfBundles(_, _, _)
VersionsOfBundles(i, bundles, b) ==
    IF b = 0 THEN <<>>
    ELSE VersionsOfBundles(i, bundles, b - 1) \o
         versions_processed(bundles[b], stat[i][b], config.uniqueness)

\* C12: for the dataset type MostProximate the resolved alternates are None
\* and the one search bundle has the proximate dataset's own snapshot mounts;
\* for AltReplicated a proximate dataset without an entry in the alternates
\* map (or no map at all) contributes no bundle and no failure, and the path's
\* version list is the one a search of the proximate dataset alone gives.
C12_ResolutionBySearchMode ==
    \A i \in Workers :
        LET pathdata == path_set[i]
            prox     == ProximateDatasetMount(pathdata)
            only     == search_bundles_from_pathdata(pathdata, ONLY_PROXIMATE)
        IN  IsSome(prox) =>
                /\ MostProximateAndOptAlts_new(pathdata, "MostProximate") =
                       Some([proximate_dataset_mount |-> Unwrap(prox),
                             opt_datasets_of_interest |-> None])
                /\ Unwrap(prox) \in DOMAIN map_of_snaps =>
                       /\ Len(BundlesOfType(pathdata, "MostProximate")) = 1
                       /\ BundlesOfType(pathdata, "MostProximate")[1].snap_mounts
                              = map_of_snaps[Unwrap(prox)]
                /\ NoAlternatesEntry(pathdata) =>
                       /\ MostProximateAndOptAlts_new(pathdata, "AltReplicated") = None
                       /\ BundlesOfType(pathdata, "AltReplicated") = <<>>
                       /\ search_bundles[i] = only
                       /\ pc = "returned" =>
                              Returned[pathdata] = VersionsOfBundles(i, only, Len(only))

\* C12: alternates were asked for, the proximate dataset of a path has no
\* entry in the alternates map, and the map returned has the path's versions
\* from the proximate dataset's snapshots
C12_Witness ==
    /\ pc = "returned"
    /\ snaps_selected_for_search = "IncludeAltReplicated"
    /\ \E i \in Workers :
        /\ IsSome(ProximateDatasetMount(path_set[i]))
        /\ NoAlternatesEntry(path_set[i])
        /\ Len(Returned[path_set[i]]) = 2
        /\ \A k \in 1..2 :
               ProbedFrom(Returned[path_set[i]][k]) = Unwrap(ProximateDatasetMount(path_set[i]))

\* the contents the i-th path's version had when it was stat'ed
ContentsOf(i, version) ==
    LET hit == CHOOSE bm \in {<<b, m>> : b \in 1..Len(stat[i]), m \in 1..(NSnaps + NAltSnaps)} :
                   /\ bm[2] <= Len(stat[i][bm[1]])
                   /\ search_bundles[i][bm[1]].snap_mounts[bm[2]]
                          \o search_bundles[i][bm[1]].relative_path = version.path_buf
    IN  stat[i][hit[1]][hit[2]].contents

\* two versions of the i-th path are equal under the uniqueness mode
PolicyEq(i, v, w) ==
    IF config.uniqueness = "UniqueContents"
    THEN ContentsOf(i, v) = ContentsOf(i, w)
    ELSE md_infallible(v) = md_infallible(w)

IsSnapshotMount(mount_info) == \E k \in 1..Len(mount_info.dest) : mount_info.dest[k] = 0

\* the mount option subvol=@ is among the mount's options
HasSubvol(mount_info) == \E k \in 1..Len(mount_info.options) :
                            mount_info.options[k] = <<"subvol", "=", "@">>

IsNetworkShare(mount_info) == mount_info.fstype \in {"smbfs", "nfs", "afpfs"}

\* the mount table has been read and classified
ProcMountsRead == platform.linux /\ discovery = "mounts"

\* C14: of a mount table that was read, a mount under the hidden snapshot
\* directory is in neither the dataset map nor the filter set, and every other
\* mount is in exactly one of them by its type: zfs in the map as Zfs/Local;
\* btrfs in the map as Btrfs/Local, named by its subvol= option or else its
\* source; a network share (smbfs, nfs, afpfs) in the map as Network with the
\* kind the hidden-directory probe found, and out of the map when the probe
\* fails; any other type in the filter set.
C14_MountClassification ==
    ProcMountsRead =>
        LET datasets == Unwrap(discovered)[1]
            dirs_set == Unwrap(discovered)[2].dirs_set
        IN  \A m \in mounts :
                IF IsSnapshotMount(m)
                THEN m.dest \notin DOMAIN datasets /\ m.dest \notin dirs_set
                ELSE /\ (m.dest \in DOMAIN datasets) # (m.dest \in dirs_set)
                     /\ m.fstype = "zfs" =>
                            /\ m.dest \in DOMAIN datasets
                            /\ datasets[m.dest] = [name |-> m.source, fs_type |-> "Zfs",
                                                   mount_type |-> "Local"]
                     /\ m.fstype = "btrfs" =>
                            /\ m.dest \in DOMAIN datasets
                            /\ datasets[m.dest] =
                                   [name |-> IF HasSubvol(m) THEN <<"@">> ELSE m.source,
                                    fs_type |-> "Btrfs", mount_type |-> "Local"]
                     /\ IsNetworkShare(m) /\ m.hidden_dir # "None" =>
                            /\ m.dest \in DOMAIN datasets
                            /\ datasets[m.dest] = [name |-> m.source, fs_type |-> m.hidden_dir,
                                                   mount_type |-> "Network"]
                     /\ IsNetworkShare(m) /\ m.hidden_dir = "None" =>
                            m.dest \notin DOMAIN datasets
                     /\ m.fstype \notin {"zfs", "btrfs"} /\ ~IsNetworkShare(m) =>
                            m.dest \in dirs_set

\* C14: a mount table was read that has a btrfs subvolume, a network share
\* without a hidden directory, a snapshot mount and a mount of another type
C14_Witness ==
    /\ ProcMountsRead
    /\ \E a, b, c, d \in mounts :
        /\ a.fstype = "btrfs" /\ HasSubvol(a)
        /\ Unwrap(discovered)[1][a.dest].name = <<"@">>
        /\ IsNetworkShare(b) /\ b.hidden_dir = "None"
        /\ b.dest \in Unwrap(discovered)[2].dirs_set
        /\ IsSnapshotMount(c)
        /\ d.fstype = "ext4"
        /\ d.dest \in Unwrap(discovered)[2].dirs_set

\* the parser the platform uses finds no supported dataset among the mounts
NoSupportedDataset ==
    IF platform.linux
    THEN \A m \in mounts :
            \/ IsSnapshotMount(m)
            \/ /\ m.fstype \notin {"zfs", "btrfs"}
               /\ ~(IsNetworkShare(m) /\ m.hidden_dir # "None")
    ELSE \A m \in mounts :
            \/ ParseLine(MountLine(m)) = None
            \/ m.hidden_dir = "None"

\* the failures of discovery the claim names
NamedDiscoveryFailure ==
    \/ platform.linux /\ platform.proc_mounts = "unreadable"
    \/ ~platform.linux /\ platform.mount_cmd = "missing"
    \/ NoSupportedDataset

\* discovery has ended, and what it handed over
DiscoveryEnded == discovery \in {"ok", "err"}

DiscoveryHandsOver ==
    /\ discovery = "ok" =>
        /\ IsSome(base_filesystem_info)
        /\ DOMAIN Unwrap(base_filesystem_info).map_of_datasets # {}
        /\ map_of_datasets = Unwrap(base_filesystem_info).map_of_datasets
    /\ discovery = "err" =>
        /\ base_filesystem_info = None
        /\ map_of_datasets = EmptyMap
        /\ path_set = <<>> /\ pc = "discovery"

C16_InterleavingIndependent ==
    pc = "returned" =>
        /\ DOMAIN Returned = Range(path_set)
        /\ \A i \in Workers :
               Returned[path_set[i]] = VersionsOfBundles(i, search_bundles[i],
                                                         Len(search_bundles[i]))

\* C16: the probe of the second snapshot ended before the probe of the first,
\* and the older version of the first snapshot is first in the returned list
\* all the same
C16_Witness ==
    /\ pc = "returned"
    /\ \E b \in 1..Len(arrival[1]) :
        /\ arrival[1][b] = <<2, 1>>
        /\ stat[1][b][1].kind = "Ok" /\ stat[1][b][2].kind = "Ok"
        /\ Unwrap(stat[1][b][1].metadata).modify_time
               < Unwrap(stat[1][b][2].metadata).modify_time
        /\ \E k \in 1..Len(Returned[path_set[1]]) - 1 :
            /\ Returned[path_set[1]][k].path_buf =
                   search_bundles[1][b].snap_mounts[1] \o search_bundles[1][b].relative_path
            /\ Returned[path_set[1]][k + 1].path_buf =
                   search_bundles[1][b].snap_mounts[2] \o search_bundles[1][b].relative_path

\* one candidate comes before the other: the older one, or of two of the same
\* modification time the one with the lesser path
Before(a, b) ==
    \/ md_infallible(a).modify_time < md_infallible(b).modify_time
    \/ /\ md_infallible(a).modify_time = md_infallible(b).modify_time
       /\ PathLess(a.path_buf, b.path_buf)

\* the candidates found for the first bundle of the i-th path, as
\* sort_dedup_versions gets them
Found(i) == versions_unprocessed(search_bundles[i][1], stat[i][1], config.uniqueness)

\* the candidates in ascending order
Ascending(i) ==
    LET found == Range(Found(i))
    IN  [r \in 1..Cardinality(found) |->
            CHOOSE x \in found :
                Cardinality({y \in found : Before(y.pathdata, x.pathdata)}) = r - 1]

\* two candidates are equal under the uniqueness mode
EqualUnderPolicy(a, b) ==
    IF config.uniqueness = "UniqueContents" THEN a.opt_hash = b.opt_hash
    ELSE md_infallible(a.pathdata) = md_infallible(b.pathdata)

\* the places in the ascending order where a run of equal candidates starts
RunStarts(i) ==
    {k \in 1..Len(Ascending(i)) :
        k = 1 \/ ~EqualUnderPolicy(Ascending(i)[k - 1], Ascending(i)[k])}

\* the first bundle of the i-th path has been sorted and deduplicated
Processed(i) == bundle_idx[i] > 1

\* C17: under All the output of sort_dedup_versions is the candidates in
\* ascending order of modification time, then path, every one of them kept;
\* under UniqueMetadata and UniqueContents it is the first candidate of every
\* maximal run of policy-equal neighbours of that ascending order.
C17_SortDedup ==
    \A i \in Workers :
        Processed(i) =>
            LET asc  == Ascending(i)
                kept == IF config.uniqueness = "All" THEN 1..Len(asc) ELSE RunStarts(i)
            IN  /\ Len(snaps[i]) = Cardinality(kept)
                /\ config.uniqueness = "All" => Len(snaps[i]) = Len(Found(i))
                /\ \A j \in 1..Len(snaps[i]) :
                       snaps[i][j] =
                           asc[CHOOSE k \in kept :
                                   Cardinality({l \in kept : l < k}) = j - 1].pathdata

\* C17: under UniqueMetadata the copies in the second and third snapshot are
\* of the same, older time and the copy in the first is younger: the second
\* snapshot's copy stands for the run and comes first
C17_Witness ==
    /\ config.uniqueness = "UniqueMetadata"
    /\ Processed(1)
    /\ Len(Found(1)) = 3
    /\ md_infallible(Found(1)[2].pathdata) = md_infallible(Found(1)[3].pathdata)
    /\ Before(Found(1)[3].pathdata, Found(1)[1].pathdata)
    /\ snaps[1] = <<Found(1)[2].pathdata, Found(1)[1].pathdata>>

\* a list of versions handed to sort_dedup_versions once more
Again(versions, uniqueness) ==
    [k \in 1..Len(versions) |-> CompareVersionsContainer_new(versions[k], 0, uniqueness)]

\* C18: sorting and deduplicating under UniqueMetadata what was already
\* sorted and deduplicated under UniqueMetadata gives the same list again.
C18_DedupIdempotent ==
    config.uniqueness = "UniqueMetadata" =>
        \A i \in Workers :
            Processed(i) =>
                sort_dedup_versions(Again(snaps[i], "UniqueMetadata"), "UniqueMetadata")
                    = snaps[i]

\* C18: three copies of the same metadata were collapsed into one, and doing
\* it again leaves that one
C18_Witness ==
    /\ config.uniqueness = "UniqueMetadata"
    /\ Processed(1)
    /\ Len(Found(1)) = 3
    /\ Len(snaps[1]) = 1
    /\ sort_dedup_versions(Again(snaps[1], "UniqueMetadata"), "UniqueMetadata") = snaps[1]


\* both strategies have a mount table to work on: the mount table can be
\* read and the mount command runs
BothStrategiesRun ==
    platform.proc_mounts = "readable" /\ platform.mount_cmd \in {"gnu", "bsd"}

\* C19: for the same mounted filesystems, reading the mount table and
\* parsing the output of the mount command give the same dataset map (the
\* same mount points, each with the same name, filesystem kind and mount
\* class) and the same filter set, and what discovery found is that result.
C19_StrategiesEquivalent ==
    (discovery # "new" /\ BothStrategiesRun) =>
        /\ from_proc_mounts = from_mount_cmd
        /\ discovered = from_proc_mounts

\* ditto omission has run on the map as built
DittoOmitted == pc = "last_snap" /\ config.opt_omit_ditto

\* C20, as claimed: after ditto omission no path's version list ends with a
\* ditto, whatever the uniqueness mode: the last entry left of a non-empty
\* list differs in metadata from the live path.
C20_NoListEndsWithDitto ==
    DittoOmitted =>
        \A pathdata \in DOMAIN versions_map :
            ~EndsWithDitto(pathdata, versions_map[pathdata])

\* C20, amended: after ditto omission on lists that were deduplicated by
\* metadata (UniqueMetadata), each from the snapshots of one dataset, no
\* path's version list ends with a ditto; with another uniqueness mode one
\* entry at most has been removed from each list, whatever is left.
C20_NoListEndsWithDittoUniqueMetadata ==
    DittoOmitted =>
        \A pathdata \in DOMAIN versions_map :
            /\ config.uniqueness = "UniqueMetadata" =>
                    ~EndsWithDitto(pathdata, versions_map[pathdata])
            /\ Len(versions_map[pathdata]) >= Len(all_snap_versions[pathdata]) - 1

\* C20: under UniqueMetadata ditto omission has removed the ditto a list of
\* two versions ended with, and what is left does not end with a ditto
C20_Witness ==
    /\ DittoOmitted
    /\ config.uniqueness = "UniqueMetadata"
    /\ \E pathdata \in DOMAIN versions_map :
        /\ Len(all_snap_versions[pathdata]) = 2
        /\ EndsWithDitto(pathdata, all_snap_versions[pathdata])
        /\ Len(versions_map[pathdata]) = 1
        /\ ~EndsWithDitto(pathdata, versions_map[pathdata])

\* the dataset has an entry in the snapshot directory index
Indexed(dataset) == dataset \in DOMAIN map_of_snaps

\* the alternates list of the path's proximate dataset, in its order
Alternates(pathdata) ==
    IF AltDatasets(pathdata) = {} THEN <<>>
    ELSE Unwrap(Unwrap(opt_map_of_alts)[Unwrap(ProximateDatasetMount(pathdata))]
                    .opt_datasets_of_interest)

\* the bundle that searches this dataset's snapshot mounts for the path
BundleOn(pathdata, dataset) ==
    [relative_path |->
        Unwrap(relative_path(pathdata, Unwrap(ProximateDatasetMount(pathdata)))),
     snap_mounts |-> map_of_snaps[dataset]]

\* the bundles of the proximate dataset alone: one when it is indexed
ProximateBundles(pathdata) ==
    IF Indexed(Unwrap(ProximateDatasetMount(pathdata)))
    THEN <<BundleOn(pathdata, Unwrap(ProximateDatasetMount(pathdata)))>>
    ELSE <<>>

\* C21: when alternates are searched and one dataset of a path's alternates
\* list has no entry in the snapshot directory index, no alternate
\* contributes a bundle for the path, not even an indexed one: the path's
\* bundles are the proximate dataset's alone, that bundle is probed in full
\* before the worker ends, and every version collected was probed from the
\* proximate dataset.  When every alternate is indexed, each contributes its
\* bundle, in the order of the list, before the proximate dataset's.
C21_AlternatesAllOrNothing ==
    snaps_selected_for_search = "IncludeAltReplicated" =>
        \A i \in Workers :
            LET pathdata == path_set[i]
                alts     == Alternates(pathdata)
            IN  alts # <<>> =>
                    IF \E k \in 1..Len(alts) : ~Indexed(alts[k])
                    THEN /\ search_bundles[i] = ProximateBundles(pathdata)
                         /\ WorkerDone(i) =>
                                \A b \in 1..Len(stat[i]) : \A m \in 1..Len(stat[i][b]) :
                                    stat[i][b][m] # Pending
                         /\ \A k \in 1..Len(snaps[i]) :
                                ProbedFrom(snaps[i][k]) = Unwrap(ProximateDatasetMount(pathdata))
                    ELSE search_bundles[i] =
                            [k \in 1..Len(alts) |-> BundleOn(pathdata, alts[k])]
                            \o ProximateBundles(pathdata)

\* C21: alternates were searched for a path whose first alternate is
\* indexed and whose second is not; the one bundle built is the proximate
\* dataset's, and the list returned holds what its probes found
C21_Witness ==
    /\ snaps_selected_for_search = "IncludeAltReplicated"
    /\ pc = "returned"
    /\ Alternates(path_set[1]) = <<ReplicatedMount, OtherReplicatedMount>>
    /\ Indexed(ReplicatedMount) /\ ~Indexed(OtherReplicatedMount)
    /\ Indexed(ProximateMount)
    /\ search_bundles[1] = <<BundleOn(path_set[1], ProximateMount)>>
    /\ Len(Returned[path_set[1]]) = NSnaps
    /\ \A k \in 1..NSnaps : ProbedFrom(Returned[path_set[1]][k]) = ProximateMount

\* the keys of the map are the input paths
KeysAreInputPaths(map) == DOMAIN map = Range(path_set)

\* the step of the ditto omission pass: every list is a prefix of what it was
OmitDittoFrame ==
    pc = "omit_ditto" /\ pc' = "last_snap" =>
        /\ KeysAreInputPaths(versions_map) /\ KeysAreInputPaths(versions_map')
        /\ \A pathdata \in DOMAIN versions_map :
                LET before == versions_map[pathdata]
                    after  == versions_map'[pathdata]
                IN  /\ Len(after) <= Len(before)
                    /\ after = SubSeq(before, 1, Len(after))

\* the step of the last-snapshot pass: every list is left with at most one
\* entry, the list's former last element or the live path
LastSnapFrame ==
    pc = "last_snap" /\ pc' = "returned" =>
        /\ KeysAreInputPaths(versions_map) /\ KeysAreInputPaths(versions_map')
        /\ \A pathdata \in DOMAIN versions_map :
                LET before == versions_map[pathdata]
                    after  == versions_map'[pathdata]
                IN  IF IsSome(config.opt_last_snap)
                    THEN /\ Len(after) <= 1
                         /\ after # <<>> =>
                                \/ before # <<>> /\ after[1] = before[Len(before)]
                                \/ after[1] = pathdata
                    ELSE after = before

\* C22: neither post-processing pass changes the key set of the map or adds
\* a snapshot version: before and after each pass the keys are the input
\* paths, each list after ditto omission is a prefix of the list before it,
\* and each list after the last-snapshot pass, in any mode, has at most one
\* entry, which is the list's former last element or the live path itself.
C22_PassesKeepKeys == [][OmitDittoFrame /\ LastSnapFrame]_vars

\* C22: both passes have run (NoDittoInclusive) on a map of the two input
\* paths: the one list of two versions lost its ditto and is left with its
\* first version, the other list was empty and is left with the live path
C22_Witness ==
    /\ pc = "returned"
    /\ config.opt_omit_ditto
    /\ config.opt_last_snap = Some("NoDittoInclusive")
    /\ KeysAreInputPaths(versions_map)
    /\ \E p, q \in DOMAIN versions_map :
        /\ Len(all_snap_versions[p]) = 2
        /\ EndsWithDitto(p, all_snap_versions[p])
        /\ versions_map[p] = <<all_snap_versions[p][1]>>
        /\ all_snap_versions[q] = <<>>
        /\ versions_map[q] = <<q>>
====
